---- MODULE Spec2Model ----
(***************************************************************************)
(* Verification model of the padding node (library/src/layout/pad.rs), the *)
(* deduplicating map (src/func/map.rs) and the function argument container *)
(* (src/syntax/mod.rs).                                                    *)
(*                                                                         *)
(* Floating point numbers are modelled as exact fractions <<n, d>>; a zero *)
(* denominator stands for a non-finite value (<<1,0>>, <<-1,0>> infinite,  *)
(* <<0,0>> not a number).                                                  *)
(***************************************************************************)
EXTENDS Integers, Sequences, FiniteSets, TLC

VARIABLES
    cArgs, cOut,                                  \* PadNode::construct
    padding, regions, pod, childOut, fragment,    \* PadNode::layout
    map, mLog, mOut,                              \* ConsistentMap
    pos, key, nextSpan, handed, out               \* FuncArgs

padVars == <<cArgs, cOut>>
layVars == <<padding, regions, pod, childOut, fragment>>
mapVars == <<map, mLog, mOut>>
argVars == <<pos, key, nextSpan, handed, out>>
vars == <<cArgs, cOut, padding, regions, pod, childOut, fragment,
          map, mLog, mOut, pos, key, nextSpan, handed, out>>

\* ------------------------------------------------------------------ bounds
MaxPadVal == 1      \* argument values of construct are 0..MaxPadVal
RelDen == 2         \* relative fractions are k / RelDen, k in 0..RelDen
MaxFrames == 2      \* frames a child layout returns
MaxOps == 3         \* add calls on one ConsistentMap
MaxArgs == 2        \* arguments added to one FuncArgs

\* ------------------------------------------------------------ Option<T>
None == <<>>
Some(v) == <<v>>
IsSome(o) == o # None
Unwrap(o) == o[1]
Or(a, b) == IF IsSome(a) THEN a ELSE b
UnwrapOrDefault(o) == IF IsSome(o) THEN Unwrap(o) ELSE 0

\* ============================================================ construct
PadVals == 0..MaxPadVal
OptPadVals == {None} \cup {Some(v) : v \in PadVals}

ConstructArgs ==
    [rest : OptPadVals, found : OptPadVals, x : OptPadVals, y : OptPadVals,
     left : OptPadVals, top : OptPadVals, right : OptPadVals,
     bottom : OptPadVals, body : BOOLEAN]

SidesNew(l, t, r, b) == [left |-> l, top |-> t, right |-> r, bottom |-> b]

\* a side keyword takes the axis keyword before its own (mutation)
PadConstructAxisFirst(a) ==
    LET all == Or(a.rest, a.found)
        left == UnwrapOrDefault(Or(Or(a.x, a.left), all))
        top == UnwrapOrDefault(Or(Or(a.y, a.top), all))
        right == UnwrapOrDefault(Or(Or(a.x, a.right), all))
        bottom == UnwrapOrDefault(Or(Or(a.y, a.bottom), all))
    IN  IF ~a.body THEN [ok |-> FALSE]
        ELSE [ok |-> TRUE, padding |-> SidesNew(left, top, right, bottom)]

PadConstruct(a) ==
    LET all == Or(a.rest, a.found)
        left == UnwrapOrDefault(Or(Or(a.left, a.x), all))
        top == UnwrapOrDefault(Or(Or(a.top, a.y), all))
        right == UnwrapOrDefault(Or(Or(a.right, a.x), all))
        bottom == UnwrapOrDefault(Or(Or(a.bottom, a.y), all))
    IN  IF ~a.body THEN [ok |-> FALSE]
        ELSE [ok |-> TRUE, padding |-> SidesNew(left, top, right, bottom)]

Construct ==
    /\ cOut = None
    /\ cOut' = Some(PadConstruct(cArgs))
    /\ UNCHANGED <<cArgs, layVars, mapVars, argVars>>

\* ==================================================== f64 as fractions
AbsInt(n) == IF n < 0 THEN -n ELSE n
Sign(n) == IF n < 0 THEN -1 ELSE IF n = 0 THEN 0 ELSE 1

RECURSIVE GCD(_, _)
GCD(a, b) == IF b = 0 THEN a ELSE GCD(b, a % b)

Norm(n, d) ==
    IF d = 0 THEN <<Sign(n), 0>>
    ELSE LET g == GCD(AbsInt(n), AbsInt(d))
         IN  <<(Sign(d) * n) \div g, AbsInt(d) \div g>>

Num(n) == <<n, 1>>
Zero == Num(0)
One == Num(1)
IsFinite(a) == a[2] # 0
FAdd(a, b) ==
    IF ~IsFinite(a) /\ ~IsFinite(b)
    THEN (IF a = b THEN a ELSE <<0, 0>>)
    ELSE Norm(a[1] * b[2] + b[1] * a[2], a[2] * b[2])
FNeg(a) == <<-a[1], a[2]>>
FSub(a, b) == FAdd(a, FNeg(b))
FMul(a, b) == Norm(a[1] * b[1], a[2] * b[2])
FDiv(a, b) ==
    IF ~IsFinite(a) /\ ~IsFinite(b) THEN <<0, 0>>
    ELSE Norm(a[1] * b[2] * (IF b[1] < 0 THEN -1 ELSE 1), a[2] * AbsInt(b[1]))
FLess(a, b) == IsFinite(a) /\ IsFinite(b) /\ a[1] * b[2] < b[1] * a[2]

\* Abs::safe_div: the quotient, or zero when it is not finite
SafeDiv(a, b) == LET q == FDiv(a, b) IN IF IsFinite(q) THEN q ELSE Zero

\* ================================================================ layout
Sz(w, h) == [x |-> w, y |-> h]
Pt(px, py) == [x |-> px, y |-> py]
SzSub(a, b) == Sz(FSub(a.x, b.x), FSub(a.y, b.y))
SzAdd(a, b) == Sz(FAdd(a.x, b.x), FAdd(a.y, b.y))

RelNew(r, a) == [rel |-> r, abs |-> a]
RelAdd(p, q) == [rel |-> FAdd(p.rel, q.rel), abs |-> FAdd(p.abs, q.abs)]

\* Rel<Abs>::relative_to: rel * whole + abs
RelRelativeTo(p, whole) == FAdd(FMul(p.rel, whole), p.abs)

\* Sides<Rel<Abs>>::relative_to(size): left/right against x, top/bottom against y
SidesRelativeTo(s, size) ==
    [left |-> RelRelativeTo(s.left, size.x),
     top |-> RelRelativeTo(s.top, size.y),
     right |-> RelRelativeTo(s.right, size.x),
     bottom |-> RelRelativeTo(s.bottom, size.y)]

\* Sides<Abs>::sum_by_axis
SumByAxis(s) == Sz(FAdd(s.left, s.right), FAdd(s.top, s.bottom))

\* Sides<Rel<Abs>>::sum_by_axis
RelSumByAxis(s) == Sz(RelAdd(s.left, s.right), RelAdd(s.top, s.bottom))

shrink(size, p) == SzSub(size, SumByAxis(SidesRelativeTo(p, size)))

\* the division of grow without its guard (mutation)
GrowAxisUnguarded(s, p) == FDiv(FAdd(s, p.abs), FSub(One, p.rel))

\* grow that adds the absolute part after dividing (mutation)
GrowAxisAbsOutside(s, p) == FAdd(SafeDiv(s, FSub(One, p.rel)), p.abs)

\* (s + p.abs).safe_div(1.0 - p.rel.get())
GrowAxis(s, p) == SafeDiv(FAdd(s, p.abs), FSub(One, p.rel))

grow(size, p) ==
    LET sum == RelSumByAxis(p)
    IN  Sz(GrowAxis(size.x, sum.x), GrowAxis(size.y, sum.y))

\* Frame::translate
Translate(items, offset) ==
    [i \in 1..Len(items) |->
        Pt(FAdd(items[i].x, offset.x), FAdd(items[i].y, offset.y))]

Frame(size, items) == [size |-> size, items |-> items]

\* the loop body without the translation (mutation)
PadFrameNoTranslate(frame, p) == Frame(grow(frame.size, p), frame.items)

\* the loop body of PadNode::layout, lines 44-54
PadFrame(frame, p) ==
    LET padded == grow(frame.size, p)
        pad == SidesRelativeTo(p, padded)
        offset == Pt(pad.left, pad.top)
    IN  Frame(padded, Translate(frame.items, offset))

\* regions.map(&mut backlog, |size| shrink(size, padding)): every region size
Pod(rs, p) == [i \in 1..Len(rs) |-> shrink(rs[i], p)]

\* inputs of layout
Rels == {Norm(k, RelDen) : k \in 0..RelDen}
Abss == {Zero, Num(10)}
RelAbs == {RelNew(r, a) : r \in Rels, a \in Abss}
Paddings == [left : RelAbs, top : RelAbs, right : RelAbs, bottom : RelAbs]
RegionChoices ==
    { <<Sz(Num(100), Num(100))>>,
      <<Sz(Num(100), Num(100)), Sz(Num(40), Num(20))>> }
ChildFrames ==
    { Frame(Sz(Num(80), Num(50)), <<Pt(Zero, Zero)>>),
      Frame(Sz(Num(30), Zero), <<Pt(Zero, Zero), Pt(Num(5), Num(7))>>) }
RECURSIVE SeqsUpTo(_, _)
SeqsUpTo(S, n) ==
    IF n = 0 THEN {<<>>}
    ELSE LET prev == SeqsUpTo(S, n - 1)
         IN  prev \cup {Append(s, e) : s \in {t \in prev : Len(t) = n - 1}, e \in S}
ChildFragments == SeqsUpTo(ChildFrames, MaxFrames) \ {<<>>}

\* PadNode::layout; the child's layout is any fragment or an error
Layout ==
    /\ fragment = None
    /\ LET p == padding
           pd == Pod(regions, p)
       IN  /\ pod' = Some(pd)
           /\ \/ /\ childOut' = Some([ok |-> FALSE])
                 /\ fragment' = Some([ok |-> FALSE])
              \/ \E fr \in ChildFragments :
                    /\ childOut' = Some([ok |-> TRUE, frames |-> fr])
                    /\ fragment' = Some([ok |-> TRUE,
                          frames |-> [i \in 1..Len(fr) |-> PadFrame(fr[i], p)]])
    /\ UNCHANGED <<padding, regions, padVars, mapVars, argVars>>

\* ========================================================= ConsistentMap
\* The HashMap is the set of its (key, value) entries.
Keys == {"a", "b"}
Vals == {1, 2}
NewKeys == {"k1", "k2"}
OptVals == {None} \cup {Some(v) : v \in Vals}
Spanned(v, span) == [v |-> v, span |-> span]
OptSpannedVals == {None} \cup {Some(Spanned(v, 7)) : v \in Vals}
Remaps == [Keys -> NewKeys]

\* HashMap::insert that keeps the old entry (mutation)
HashInsertKeep(m, k, v) == m \cup {<<k, v>>}

\* HashMap::insert
HashInsert(m, k, v) == {e \in m : e[1] # k} \cup {<<k, v>>}

OkUnit == [ok |-> TRUE, map |-> {}]
MapOut(op, res) == [op |-> op, f |-> [k \in Keys |-> "k1"], res |-> res]

Add(k, v) ==
    /\ Len(mLog) < MaxOps
    /\ map' = HashInsert(map, k, v)
    /\ mLog' = Append(mLog, <<k, Some(v)>>)
    /\ mOut' = MapOut("add", OkUnit)
    /\ UNCHANGED <<padVars, layVars, argVars>>

AddOpt(k, value) ==
    /\ Len(mLog) < MaxOps
    /\ map' = IF IsSome(value) THEN HashInsert(map, k, Unwrap(value)) ELSE map
    /\ mLog' = Append(mLog, <<k, value>>)
    /\ mOut' = MapOut("add_opt", OkUnit)
    /\ UNCHANGED <<padVars, layVars, argVars>>

AddOptSpan(k, value) ==
    /\ Len(mLog) < MaxOps
    /\ map' = IF IsSome(value) THEN HashInsert(map, k, Unwrap(value).v) ELSE map
    /\ mLog' = Append(mLog,
          <<k, IF IsSome(value) THEN Some(Unwrap(value).v) ELSE None>>)
    /\ mOut' = MapOut("add_opt_span", OkUnit)
    /\ UNCHANGED <<padVars, layVars, argVars>>

\* dedup ignores its function and returns an empty map
DedupResult(m, f) == [ok |-> TRUE, map |-> {}]

Dedup(f) ==
    /\ mOut' = [op |-> "dedup", f |-> f, res |-> DedupResult(map, f)]
    /\ UNCHANGED <<map, mLog, padVars, layVars, argVars>>

\* ============================================================== FuncArgs
\* Payloads of identifiers, strings and booleans are numbered.
Expr(kind, v) == [kind |-> kind, v |-> v]
Exprs ==
    { Expr("Ident", 1), Expr("Ident", 2), Expr("Str", 1), Expr("Str", 2),
      Expr("Num", 1), Expr("Num", 16777217), Expr("Num", 16777219),
      Expr("Size", 2), Expr("Size", 3), Expr("Bool", 0), Expr("Bool", 1) }
Targets ==
    { "expression", "identifier", "string", "number", "boolean", "size",
      "number or size" }
\* the arguments and targets of the call sequences
ArgExprs == {Expr("Str", 1), Expr("Num", 16777217), Expr("Size", 2)}
ArgTargets == {"expression", "number", "size", "number or size"}
ArgNames == {"x", "y"}

Pow2(n) == 2 ^ n
\* `scale as f32` for 0 <= n < 2^25: round to 24 bits, ties to even
AsF32(n) ==
    IF n < Pow2(24) THEN n
    ELSE LET q == n \div 2
         IN  IF n % 2 = 0 THEN n
             ELSE IF q % 2 = 0 THEN 2 * q ELSE 2 * (q + 1)

CoerceOk(kind, v) == [ok |-> TRUE, kind |-> kind, v |-> v]
CoerceErr == [ok |-> FALSE, kind |-> "", v |-> 0]

\* from_expr whose number pattern also takes a size (mutation)
FromExprLoose(E, e) ==
    CASE E = "expression" -> CoerceOk(e.kind, e.v)
      [] E = "identifier" /\ e.kind = "Ident" -> CoerceOk("ident", e.v)
      [] E = "string" /\ e.kind = "Str" -> CoerceOk("string", e.v)
      [] E = "number" /\ e.kind \in {"Num", "Size"} -> CoerceOk("f64", e.v)
      [] E = "boolean" /\ e.kind = "Bool" -> CoerceOk("bool", e.v)
      [] E = "size" /\ e.kind = "Size" -> CoerceOk("size", e.v)
      [] E = "number or size" /\ e.kind = "Size" -> CoerceOk("Absolute", e.v)
      [] E = "number or size" /\ e.kind = "Num" -> CoerceOk("Scaled", AsF32(e.v))
      [] OTHER -> CoerceErr

\* ExpressionKind::from_expr of the kind! instances
FromExpr(E, e) ==
    CASE E = "expression" -> CoerceOk(e.kind, e.v)
      [] E = "identifier" /\ e.kind = "Ident" -> CoerceOk("ident", e.v)
      [] E = "string" /\ e.kind = "Str" -> CoerceOk("string", e.v)
      [] E = "number" /\ e.kind = "Num" -> CoerceOk("f64", e.v)
      [] E = "boolean" /\ e.kind = "Bool" -> CoerceOk("bool", e.v)
      [] E = "size" /\ e.kind = "Size" -> CoerceOk("size", e.v)
      [] E = "number or size" /\ e.kind = "Size" -> CoerceOk("Absolute", e.v)
      [] E = "number or size" /\ e.kind = "Num" -> CoerceOk("Scaled", AsF32(e.v))
      [] OTHER -> CoerceErr

KeyArg(name, e) == [key |-> name, value |-> e]
NoExpr == Expr("", 0)

\* results of the accessors
ResErr(E) == [tag |-> "Err", expected |-> E, val |-> CoerceErr, span |-> 0]
ResNone == [tag |-> "None", expected |-> "", val |-> CoerceErr, span |-> 0]
ResSome(val, span) == [tag |-> "Some", expected |-> "", val |-> val, span |-> span]
ResUnit == [tag |-> "Unit", expected |-> "", val |-> CoerceErr, span |-> 0]

ArgOut(op, E, name, arg, res) ==
    [op |-> op, target |-> E, name |-> name, arg |-> arg, res |-> res]

\* Vec::remove(0) that takes from the back (mutation)
VecRemove0Back(v) == SubSeq(v, 1, Len(v) - 1)
\* Vec::remove(0): the remaining vector
VecRemove0(v) == Tail(v)

\* Vec::remove(0): the removed element
VecFirst(v) == Head(v)

\* swap_remove that truncates at the index (mutation)
SwapRemoveTruncate(v, i) == SubSeq(v, 1, i - 1)
\* swap_remove that removes the last element (mutation)
SwapRemoveLast(v, i) == SubSeq(v, 1, Len(v) - 1)
\* Vec::swap_remove(index): the last element takes the place of the removed
SwapRemove(v, i) ==
    [j \in 1..(Len(v) - 1) |-> IF j = i THEN v[Len(v)] ELSE v[j]]

\* iter().position(|arg| arg.v.key.v.0 == name); 0 when there is none
Position(v, name) ==
    IF \E i \in 1..Len(v) : v[i].v.key = name
    THEN CHOOSE i \in 1..Len(v) :
            /\ v[i].v.key = name
            /\ \A j \in 1..(i - 1) : v[j].v.key # name
    ELSE 0

\* expect
Expect(E, res) == IF res.tag = "None" THEN ResErr(E) ELSE res

Given(seq, op) == [i \in 1..Len(seq) |-> [span |-> seq[i].span, via |-> op]]

AddPos(e) ==
    /\ nextSpan <= MaxArgs
    /\ pos' = Append(pos, Spanned(e, nextSpan))
    /\ nextSpan' = nextSpan + 1
    /\ out' = ArgOut("add_pos", "", "", e, ResUnit)
    /\ UNCHANGED <<key, handed, padVars, layVars, mapVars>>

AddKey(name, e) ==
    /\ nextSpan <= MaxArgs
    /\ key' = Append(key, Spanned(KeyArg(name, e), nextSpan))
    /\ nextSpan' = nextSpan + 1
    /\ out' = ArgOut("add_key", "", name, e, ResUnit)
    /\ UNCHANGED <<pos, handed, padVars, layVars, mapVars>>

\* get_pos_opt, and get_pos as expect(get_pos_opt())
GetPosWith(op, E) ==
    /\ IF pos # <<>>
       THEN LET spanned == VecFirst(pos)
                val == FromExpr(E, spanned.v)
            IN  /\ pos' = VecRemove0(pos)
                /\ IF val.ok
                   THEN /\ out' = ArgOut(op, E, "", spanned.v,
                                         ResSome(val, spanned.span))
                        /\ handed' = handed \o Given(<<spanned>>, op)
                   ELSE /\ out' = ArgOut(op, E, "", spanned.v, ResErr(E))
                        /\ handed' = handed
       ELSE /\ pos' = pos
            /\ handed' = handed
            /\ out' = ArgOut(op, E, "", NoExpr,
                  IF op = "get_pos" THEN Expect(E, ResNone) ELSE ResNone)
    /\ UNCHANGED <<key, nextSpan, padVars, layVars, mapVars>>

GetPos(E) == GetPosWith("get_pos", E)
GetPosOpt(E) == GetPosWith("get_pos_opt", E)

\* pos(): takes the whole vector
PosIter ==
    /\ pos' = <<>>
    /\ handed' = handed \o Given(pos, "pos")
    /\ out' = ArgOut("pos", "", "", NoExpr, ResUnit)
    /\ UNCHANGED <<key, nextSpan, padVars, layVars, mapVars>>

\* get_key_opt, and get_key as expect(get_key_opt(name))
GetKeyWith(op, E, name) ==
    /\ LET index == Position(key, name)
       IN  IF index # 0
           THEN LET spanned == key[index]
                    val == FromExpr(E, spanned.v.value)
                IN  /\ key' = SwapRemove(key, index)
                    /\ IF val.ok
                       THEN /\ out' = ArgOut(op, E, name, spanned.v.value,
                                             ResSome(val, spanned.span))
                            /\ handed' = handed \o Given(<<spanned>>, op)
                       ELSE /\ out' = ArgOut(op, E, name, spanned.v.value,
                                             ResErr(E))
                            /\ handed' = handed
           ELSE /\ key' = key
                /\ handed' = handed
                /\ out' = ArgOut(op, E, name, NoExpr,
                      IF op = "get_key" THEN Expect(E, ResNone) ELSE ResNone)
    /\ UNCHANGED <<pos, nextSpan, padVars, layVars, mapVars>>

GetKey(E, name) == GetKeyWith("get_key", E, name)
GetKeyOpt(E, name) == GetKeyWith("get_key_opt", E, name)

\* get_key_next: Vec::pop
GetKeyNext ==
    /\ IF key # <<>>
       THEN /\ key' = SubSeq(key, 1, Len(key) - 1)
            /\ handed' = handed \o Given(<<key[Len(key)]>>, "get_key_next")
            /\ out' = ArgOut("get_key_next", "", key[Len(key)].v.key,
                             key[Len(key)].v.value,
                             ResSome(CoerceOk(key[Len(key)].v.value.kind,
                                              key[Len(key)].v.value.v),
                                     key[Len(key)].span))
       ELSE /\ key' = key
            /\ handed' = handed
            /\ out' = ArgOut("get_key_next", "", "", NoExpr, ResNone)
    /\ UNCHANGED <<pos, nextSpan, padVars, layVars, mapVars>>

\* keys(): takes the whole vector
KeysIter ==
    /\ key' = <<>>
    /\ handed' = handed \o Given(key, "keys")
    /\ out' = ArgOut("keys", "", "", NoExpr, ResUnit)
    /\ UNCHANGED <<pos, nextSpan, padVars, layVars, mapVars>>

Clear ==
    /\ pos' = <<>>
    /\ key' = <<>>
    /\ out' = ArgOut("clear", "", "", NoExpr, ResUnit)
    /\ UNCHANGED <<nextSpan, handed, padVars, layVars, mapVars>>

\* ======================================================== specifications
NoPadding ==
    SidesNew(RelNew(Zero, Zero), RelNew(Zero, Zero),
             RelNew(Zero, Zero), RelNew(Zero, Zero))
IdlePad ==
    /\ cArgs = [rest |-> None, found |-> None, x |-> None, y |-> None,
                left |-> None, top |-> None, right |-> None, bottom |-> None,
                body |-> TRUE]
    /\ cOut = None
IdleLay ==
    /\ padding = NoPadding
    /\ regions = <<Sz(Num(100), Num(100))>>
    /\ pod = None
    /\ childOut = None
    /\ fragment = None
IdleMap ==
    /\ map = {}
    /\ mLog = <<>>
    /\ mOut = MapOut("new", OkUnit)
IdleArgs ==
    /\ pos = <<>>
    /\ key = <<>>
    /\ nextSpan = 1
    /\ handed = <<>>
    /\ out = ArgOut("new", "", "", NoExpr, ResUnit)

\* PadNode::construct over every combination of arguments
ConstructInit ==
    /\ cArgs \in ConstructArgs
    /\ cOut = None
    /\ IdleLay /\ IdleMap /\ IdleArgs
ConstructNext == Construct
SpecConstruct == ConstructInit /\ [][ConstructNext]_vars

\* PadNode::layout over paddings, regions and child fragments
LayoutInit ==
    /\ padding \in Paddings
    /\ regions \in RegionChoices
    /\ pod = None
    /\ childOut = None
    /\ fragment = None
    /\ IdlePad /\ IdleMap /\ IdleArgs
LayoutNext == Layout
SpecLayout == LayoutInit /\ [][LayoutNext]_vars

\* ConsistentMap::new followed by any calls
MapInit == IdlePad /\ IdleLay /\ IdleMap /\ IdleArgs
MapNext ==
    \/ \E k \in Keys, v \in Vals : Add(k, v)
    \/ \E k \in Keys, v \in OptVals : AddOpt(k, v)
    \/ \E k \in Keys, v \in OptSpannedVals : AddOptSpan(k, v)
    \/ \E f \in Remaps : Dedup(f)
SpecMap == MapInit /\ [][MapNext]_vars

\* FuncArgs::new followed by any calls
ArgsInit == IdlePad /\ IdleLay /\ IdleMap /\ IdleArgs
ArgsNext ==
    \/ \E e \in ArgExprs : AddPos(e)
    \/ \E n \in ArgNames, e \in ArgExprs : AddKey(n, e)
    \/ \E E \in ArgTargets : GetPos(E)
    \/ \E E \in ArgTargets : GetPosOpt(E)
    \/ PosIter
    \/ \E E \in ArgTargets, n \in ArgNames : GetKey(E, n)
    \/ \E E \in ArgTargets, n \in ArgNames : GetKeyOpt(E, n)
    \/ GetKeyNext
    \/ KeysIter
    \/ Clear
SpecArgs == ArgsInit /\ [][ArgsNext]_vars

\* one parsed argument of any kind, extracted as any target type
CoerceInit ==
    /\ \E e \in Exprs :
          \/ pos = <<Spanned(e, 1)>> /\ key = <<>>
          \/ \E n \in ArgNames :
                pos = <<>> /\ key = <<Spanned(KeyArg(n, e), 1)>>
    /\ nextSpan = 2
    /\ handed = <<>>
    /\ out = ArgOut("new", "", "", NoExpr, ResUnit)
    /\ IdlePad /\ IdleLay /\ IdleMap
CoerceNext ==
    \/ \E E \in Targets : GetPos(E)
    \/ \E E \in Targets : GetPosOpt(E)
    \/ \E E \in Targets, n \in ArgNames : GetKey(E, n)
    \/ \E E \in Targets, n \in ArgNames : GetKeyOpt(E, n)
SpecCoerce == CoerceInit /\ [][CoerceNext]_vars

Init == ConstructInit \/ LayoutInit \/ MapInit
Next == ConstructNext \/ LayoutNext \/ MapNext \/ ArgsNext \/ CoerceNext
Spec == Init /\ [][Next]_vars

\* ================================================================ claims
\* C1: construct resolves every side as specific > axis > all > default:
\* left and right are their own keyword if given, else x, else the catch-all
\* (rest, or else the positional value), else zero; top and bottom likewise
\* with y.
C1_SidePrecedence ==
    (IsSome(cOut) /\ Unwrap(cOut).ok) =>
        LET a == cArgs
            p == Unwrap(cOut).padding
            catchAll == IF IsSome(a.rest) THEN a.rest ELSE a.found
            Side(own, axis) ==
                IF IsSome(own) THEN Unwrap(own)
                ELSE IF IsSome(axis) THEN Unwrap(axis)
                ELSE IF IsSome(catchAll) THEN Unwrap(catchAll)
                ELSE 0
        IN  /\ p.left = Side(a.left, a.x)
            /\ p.right = Side(a.right, a.x)
            /\ p.top = Side(a.top, a.y)
            /\ p.bottom = Side(a.bottom, a.y)

\* left and x both given (left wins, right takes x), y absent (top and
\* bottom take the catch-all)
C1_Witness ==
    /\ IsSome(cOut) /\ Unwrap(cOut).ok
    /\ cArgs.left = Some(1) /\ cArgs.x = Some(0) /\ cArgs.right = None
    /\ cArgs.y = None /\ cArgs.top = None /\ cArgs.bottom = None
    /\ cArgs.rest = None /\ cArgs.found = Some(1)
    /\ Unwrap(cOut).padding = SidesNew(1, 1, 0, 1)

\* what dedup is documented to return
DedupExpected(m, f) ==
    IF \E e1 \in m, e2 \in m : e1[1] # e2[1] /\ f[e1[1]] = f[e2[1]]
    THEN [ok |-> FALSE, map |-> {}]
    ELSE [ok |-> TRUE, map |-> {<<f[e[1]], e[2]>> : e \in m}]

\* C2: dedup returns the map with every (key, value) pair remapped, and
\* fails with a duplicate error when two distinct keys are remapped to the
\* same new key.
C2_DedupRemapsOrFails ==
    mOut.op = "dedup" => mOut.res = DedupExpected(map, mOut.f)

MaxOf(S) == CHOOSE i \in S : \A j \in S : j <= i
LastPresent(k) ==
    LET idx == {i \in 1..Len(mLog) : mLog[i][1] = k /\ IsSome(mLog[i][2])}
    IN  IF idx = {} THEN None ELSE mLog[MaxOf(idx)][2]

\* C3: after any add / add_opt / add_opt_span calls every key has at most one
\* binding, which is the value of the most recent call for that key with a
\* present value; calls with an absent value change nothing; no call fails.
C3_LastWriteWins ==
    /\ \A k \in Keys : Cardinality({e \in map : e[1] = k}) <= 1
    /\ \A k \in Keys, v \in Vals : (<<k, v>> \in map) = (LastPresent(k) = Some(v))
    /\ mOut.op \in {"add", "add_opt", "add_opt_span"} => mOut.res.ok

\* "a" added twice with different values, then an absent add_opt for "a"
C3_Witness ==
    /\ mLog = << <<"a", Some(1)>>, <<"a", Some(2)>>, <<"a", None>> >>
    /\ mOut.op = "add_opt"
    /\ map = {<<"a", 2>>}

Axes == {"x", "y"}
AxisOf(s, a) == IF a = "x" THEN s.x ELSE s.y
RelSum(p, a) == AxisOf(RelSumByAxis(p), a).rel
LaidOut == IsSome(fragment) /\ IsSome(childOut) /\ Unwrap(childOut).ok
ChildFrame(i) == Unwrap(childOut).frames[i]
OutFrame(i) == Unwrap(fragment).frames[i]

\* C4: on every axis whose summed relative padding is below 1, shrinking the
\* grown size of a child frame by the padding gives back the child's size.
C4_ShrinkInvertsGrow ==
    LaidOut =>
        \A i \in 1..Len(Unwrap(childOut).frames), a \in Axes :
            FLess(RelSum(padding, a), One) =>
                AxisOf(shrink(grow(ChildFrame(i).size, padding), padding), a)
                    = AxisOf(ChildFrame(i).size, a)

\* left 50% + 10, right 10 around a child 80 wide: grown to 200
C4_Witness ==
    /\ LaidOut
    /\ padding.left = RelNew(Norm(1, 2), Num(10))
    /\ padding.right = RelNew(Zero, Num(10))
    /\ ChildFrame(1).size.x = Num(80)
    /\ OutFrame(1).size.x = Num(200)
    /\ shrink(OutFrame(1).size, padding).x = Num(80)

PurelyAbsolute(p) ==
    /\ p.left.rel = Zero /\ p.top.rel = Zero
    /\ p.right.rel = Zero /\ p.bottom.rel = Zero
AbsInset(p) ==
    Sz(FAdd(p.left.abs, p.right.abs), FAdd(p.top.abs, p.bottom.abs))

\* C5: with purely absolute padding the child is offered every region size
\* less (l + r, t + b); every frame the child returns gets the size
\* S + (l + r, t + b) and its content moved by (l, t); as many frames are
\* returned as the child produced.
C5_AbsolutePadding ==
    (PurelyAbsolute(padding) /\ IsSome(pod)) =>
        /\ Len(Unwrap(pod)) = Len(regions)
        /\ \A i \in 1..Len(regions) :
              Unwrap(pod)[i] = SzSub(regions[i], AbsInset(padding))
        /\ LaidOut =>
              /\ Unwrap(fragment).ok
              /\ Len(Unwrap(fragment).frames) = Len(Unwrap(childOut).frames)
              /\ \A i \in 1..Len(Unwrap(childOut).frames) :
                    /\ OutFrame(i).size
                          = SzAdd(ChildFrame(i).size, AbsInset(padding))
                    /\ Len(OutFrame(i).items) = Len(ChildFrame(i).items)
                    /\ \A j \in 1..Len(ChildFrame(i).items) :
                          OutFrame(i).items[j]
                              = Pt(FAdd(ChildFrame(i).items[j].x, padding.left.abs),
                                   FAdd(ChildFrame(i).items[j].y, padding.top.abs))

\* left = right = 10, top = bottom = 0, region (100, 100), child (80, 50):
\* frame (100, 50) with the child at (10, 0)
C5_Witness ==
    /\ LaidOut
    /\ padding = SidesNew(RelNew(Zero, Num(10)), RelNew(Zero, Zero),
                          RelNew(Zero, Num(10)), RelNew(Zero, Zero))
    /\ regions[1] = Sz(Num(100), Num(100))
    /\ Unwrap(pod)[1] = Sz(Num(80), Num(100))
    /\ ChildFrame(1) = Frame(Sz(Num(80), Num(50)), <<Pt(Zero, Zero)>>)
    /\ OutFrame(1) = Frame(Sz(Num(100), Num(50)), <<Pt(Num(10), Zero)>>)

\* C10: on an axis whose summed relative padding is exactly 1 the grown size
\* is the finite fallback zero, and layout returns the child's frames rather
\* than an error.
C10_DegenerateGrowsToZero ==
    LaidOut =>
        /\ Unwrap(fragment).ok
        /\ Len(Unwrap(fragment).frames) = Len(Unwrap(childOut).frames)
        /\ \A i \in 1..Len(Unwrap(childOut).frames), a \in Axes :
              /\ IsFinite(AxisOf(OutFrame(i).size, a))
              /\ RelSum(padding, a) = One => AxisOf(OutFrame(i).size, a) = Zero

\* left 50% and right 50%: the frame of a child 80 wide gets width zero
C10_Witness ==
    /\ LaidOut
    /\ padding.left.rel = Norm(1, 2) /\ padding.right.rel = Norm(1, 2)
    /\ ChildFrame(1).size.x = Num(80)
    /\ OutFrame(1).size.x = Zero

Range(f) == {f[i] : i \in DOMAIN f}
PosSet == Range(pos)
KeySet == Range(key)
SpansOf(seq) == {seq[i].span : i \in DOMAIN seq}
NoRepeat(seq) == \A i \in DOMAIN seq, j \in DOMAIN seq : i # j => seq[i].span # seq[j].span
PosOps == {"get_pos", "get_pos_opt"}
KeyOps == {"get_key", "get_key_opt"}

\* the arguments the step hands out: what it appends to the hand-out record
NewlyGiven == SubSeq(handed', Len(handed) + 1, Len(handed'))

OneShotStep ==
    /\ NoRepeat(handed')
    /\ Len(handed') > Len(handed) =>
          LET given == SpansOf(NewlyGiven)
          IN  /\ given \subseteq (SpansOf(pos) \cup SpansOf(key))
              /\ PosSet' = {a \in PosSet : a.span \notin given}
              /\ KeySet' = {a \in KeySet : a.span \notin given}
              /\ Len(pos') + Len(key') = Len(pos) + Len(key) - Len(NewlyGiven)

\* C6: no argument is handed out by more than one accessor call, and a call
\* that hands out arguments removes exactly those from the container and
\* leaves every other argument in it.
C6_OneShotConsumption == [][OneShotStep]_vars

\* get_key_next handed out the keyword argument; the positional one remains
C6_Witness ==
    /\ Len(handed) = 1 /\ handed[1].via = "get_key_next"
    /\ out.op = "get_key_next" /\ out.res.tag = "Some"
    /\ key = <<>> /\ Len(pos) = 1
    /\ pos[1].span # handed[1].span

PosHanded == SelectSeq(handed, LAMBDA h : h.via \in PosOps)

FrontToBackStep ==
    /\ \A i \in 1..(Len(PosHanded') - 1) :
          PosHanded'[i].span < PosHanded'[i + 1].span
    /\ out'.op \in PosOps =>
          IF pos = <<>>
          THEN /\ pos' = pos /\ key' = key /\ handed' = handed
               /\ out'.res.tag = (IF out'.op = "get_pos" THEN "Err" ELSE "None")
          ELSE /\ pos' = Tail(pos) /\ key' = key
               /\ out'.res.tag \in {"Some", "Err"}
               /\ out'.res.tag = "Some" =>
                     /\ out'.res.span = Head(pos).span
                     /\ out'.arg = Head(pos).v
                     /\ \A i \in 1..Len(pos') : out'.res.span < pos'[i].span

\* C7: successful get_pos / get_pos_opt calls return the positional arguments
\* in the order they were added, each removing the first remaining one; with
\* none remaining get_pos fails, get_pos_opt returns none, and the container
\* is unchanged.
C7_FrontToBack == [][FrontToBackStep]_vars

\* two positional arguments taken by two get_pos calls, in the order added
C7_Witness ==
    /\ Len(handed) = 2
    /\ handed[1] = [span |-> 1, via |-> "get_pos"]
    /\ handed[2] = [span |-> 2, via |-> "get_pos"]
    /\ pos = <<>>
    /\ out.op = "get_pos" /\ out.res.tag = "Some" /\ out.res.span = 2

\* C8: a number target accepts only a numeric literal, a size target only a
\* length literal, ScaleSize a length literal (Absolute) or a numeric literal
\* (Scaled); every other expression kind gives an error, never a value.
C8_CoercionPerTarget ==
    (out.op \in (PosOps \cup KeyOps) /\ out.arg # NoExpr) =>
        LET k == out.arg.kind
            r == out.res
        IN  /\ out.target = "number" =>
                  IF k = "Num"
                  THEN r.tag = "Some" /\ r.val = CoerceOk("f64", out.arg.v)
                  ELSE r.tag = "Err"
            /\ out.target = "size" =>
                  IF k = "Size"
                  THEN r.tag = "Some" /\ r.val = CoerceOk("size", out.arg.v)
                  ELSE r.tag = "Err"
            /\ out.target = "number or size" =>
                  IF k = "Size"
                  THEN r.tag = "Some" /\ r.val = CoerceOk("Absolute", out.arg.v)
                  ELSE IF k = "Num"
                  THEN r.tag = "Some" /\ r.val.ok /\ r.val.kind = "Scaled"
                  ELSE r.tag = "Err"

\* a numeric literal extracted as ScaleSize is Scaled
C8_Witness ==
    /\ out.op = "get_key" /\ out.target = "number or size"
    /\ out.arg = Expr("Num", 16777217)
    /\ out.res.tag = "Some" /\ out.res.val.kind = "Scaled"
    /\ key = <<>>

KeyUnique(k) ==
    \A i \in DOMAIN k, j \in DOMAIN k : i # j => k[i].v.key # k[j].v.key

\* C9: no two keyword arguments in the container have the same key.
C9_KeysUnique == KeyUnique(key)

UniqueKeysStep ==
    (KeyUnique(key) /\ out'.op # "add_key") =>
        /\ KeyUnique(key')
        /\ (out'.op \in KeyOps /\ out'.res.tag = "Some") =>
              /\ \A i \in DOMAIN key' : key'[i].v.key # out'.name
              /\ Len(key') = Len(key) - 1

\* C9 as amended: every call but add_key keeps the keyword arguments
\* key-unique, and on key-unique arguments a successful get_key(name) or
\* get_key_opt(name) leaves no binding for name.
C9_UniqueKeysKeptByExtraction == [][UniqueKeysStep]_vars

\* get_key("x") succeeded on the arguments x, y: only y remains
C9_Witness ==
    /\ out.op = "get_key" /\ out.name = "x" /\ out.res.tag = "Some"
    /\ Len(handed) = 1 /\ handed[1].span = 1
    /\ Len(key) = 1 /\ key[1].v.key = "y" /\ key[1].span = 2
====
